---- MODULE Spec2Model ----
(***************************************************************************)
(* A model of the recomart batch pipeline (scripts/2-3 .. scripts/10):     *)
(* ingestion, validation, preparation, feature transformation, feature     *)
(* store and the content-based recommender, with the orchestrator that     *)
(* sequences the stage scripts.                                            *)
(*                                                                         *)
(* Numbers.  Prices, rates, weights and timestamps are integers.  A value  *)
(* that the code holds as a float quotient is kept as the exact fraction   *)
(* [num, den]; the missing value (pandas NaN) of such a column is the      *)
(* fraction 0/0, and of a text column the string "<NA>".                   *)
(***************************************************************************)
EXTENDS Integers, Sequences, FiniteSets, TLC

VARIABLES
    \* the data lake and the feature store, as files on disk
    bronzeI,      \* bronze/user_interactions: dt_ directory -> interactions.csv
    bronzeP,      \* bronze/product_catalog:   dt_ directory -> products.csv
    silverI,      \* silver/user_interactions: dt_ directory -> silver csv
    silverP,      \* silver/product_catalog:   dt_ directory -> silver csv
    gold,         \* gold/recomart_gold_prepared.csv
    fstore,       \* feature_store/{user,item}_feature_store.csv, affinity matrix
    registry,     \* feature_store/metadata_registry.json: view name -> metadata
    \* one orchestrated run (10_orchestration.py)
    run,          \* the number of runs started; run r writes the directories dt_r
    pc,           \* the stage the run is about to execute, or idle / done / failed
    source,       \* what the two ingestion sources hold during this run
    report,       \* per stage of this run: returncode of its script, what it did
    audit,        \* 4_data_validation: the outcome of this run's validation
    prep_read,    \* 5_data_preparation: the directories this run's preparation read
    prep_frames,  \* 5_data_preparation: df_inter and df_prod after step 2
    metrics,      \* the numbers that preparation and transformation print
    \* the recommender (9_model_training.py)
    df_items,     \* the item feature table read at line 17
    rec_state,    \* "loaded", "fitted" or "error" (fit raised)
    recs,         \* the outcome of the last get_recommendations call
    \* RecomartFeatureStore objects (7_feature_store.py)
    fs,           \* constructed object -> its self.registry["feature_views"]
    call          \* the last call of a method of such an object, and its outcome

lakeVars == <<bronzeI, bronzeP, silverI, silverP, gold, fstore, registry>>
runVars == <<run, pc, source, report, audit, prep_read, prep_frames, metrics>>
recVars == <<df_items, rec_state, recs>>
storeVars == <<fs, call>>

vars == <<lakeVars, runVars, recVars, storeVars>>

(***************************************************************************)
(* Bounds of the model                                                     *)
(***************************************************************************)
MaxProductId == 4      \* product ids are 1..MaxProductId
MaxTopN == 3           \* get_recommendations is called with top_n in 1..MaxTopN
MaxRuns == 2           \* orchestrated runs of the pipeline
MaxRows == 3           \* rows of an interaction table given to the aggregation
MaxCatalog == 2        \* rows of a product table given to the normalisation
MaxRegistrations == 2  \* calls of register_feature_view

DefaultTopN == 5       \* get_recommendations(product_id, top_n=5)

ProductIds == 1..MaxProductId

(***************************************************************************)
(* Generic helpers                                                         *)
(***************************************************************************)
NA == "<NA>"                         \* a missing text cell
NaNFrac == [num |-> 0, den |-> 0]    \* a missing numeric cell

Range(s) == {s[i] : i \in DOMAIN s}

MaxOf(S) == CHOOSE x \in S : \A y \in S : y <= x
MinOf(S) == CHOOSE x \in S : \A y \in S : x <= y

\* The elements of a finite set of integers in ascending order.
RECURSIVE SortedSeq(_)
SortedSeq(S) == IF S = {} THEN <<>> ELSE <<MinOf(S)>> \o SortedSeq(S \ {MinOf(S)})

RECURSIVE SumSeq(_)
SumSeq(s) == IF s = <<>> THEN 0 ELSE Head(s) + SumSeq(Tail(s))

(***************************************************************************)
(* Rows.  An interaction row is [interaction_id, user_id, product_id,      *)
(* event_type, timestamp] (device and session_id are read by no stage).    *)
(* A product row is [id, category, price, rating]; the rating cell is the  *)
(* text of a dictionary, kept by what ast.literal_eval makes of it:        *)
(*   kind "dict"      "{'rate': r, 'count': n}", rate in tenths            *)
(*   kind "norate"    a dictionary without the key 'rate'                  *)
(*   kind "malformed" text that is no Python literal                       *)
(*   kind "nan"       an empty cell, read by pandas as the float NaN       *)
(***************************************************************************)
RatingDict(r) == [kind |-> "dict", rate |-> r]
RatingNoRate == [kind |-> "norate", rate |-> 0]
RatingMalformed == [kind |-> "malformed", rate |-> 0]
RatingNaN == [kind |-> "nan", rate |-> 0]

KnownEvents == {"view", "click", "add_to_cart", "purchase"}

(***************************************************************************)
(* 4_data_validation.py                                                    *)
(***************************************************************************)
\* Line 93: ast.literal_eval(x).get('rate') if isinstance(x, str) else None.
\* literal_eval raises on text that is no literal; nothing catches it here.
val_rate(rating) ==
    CASE rating.kind = "dict"      -> [raised |-> FALSE, null |-> FALSE, v |-> rating.rate]
      [] rating.kind = "norate"    -> [raised |-> FALSE, null |-> TRUE,  v |-> 0]
      [] rating.kind = "nan"       -> [raised |-> FALSE, null |-> TRUE,  v |-> 0]
      [] OTHER                     -> [raised |-> TRUE,  null |-> TRUE,  v |-> 0]

\* The pre-processing of line 93 raises as soon as one row's rating does.
PreprocessRaises(df_prod) == \E i \in DOMAIN df_prod : val_rate(df_prod[i].rating).raised

\* Suite s_inter (lines 108-113).  An expectation on a column's values skips
\* the missing ones, except the not-null expectation itself.
InterSuite(df_inter) ==
    /\ \A i \in DOMAIN df_inter : df_inter[i].user_id # NA
    /\ \A i, j \in DOMAIN df_inter :
         i # j => df_inter[i].interaction_id # df_inter[j].interaction_id
    /\ \A i \in DOMAIN df_inter :
         df_inter[i].event_type = NA \/ df_inter[i].event_type \in KnownEvents

\* Suite s_prod (lines 116-120); price in cents, val_rate in tenths.
ProdSuite(df_prod) ==
    /\ \A i, j \in DOMAIN df_prod : i # j => df_prod[i].id # df_prod[j].id
    /\ \A i \in DOMAIN df_prod : df_prod[i].category # NA
    /\ \A i \in DOMAIN df_prod : df_prod[i].price >= 1
    /\ \A i \in DOMAIN df_prod :
         LET r == val_rate(df_prod[i].rating)
         IN  r.null \/ (10 <= r.v /\ r.v <= 50)

\* A promotion that asks for one suite only.
PromotionEither(df_inter, df_prod) == InterSuite(df_inter) \/ ProdSuite(df_prod)

\* Line 134: the promotion condition.
PromotionOk(df_inter, df_prod) == InterSuite(df_inter) /\ ProdSuite(df_prod)

(***************************************************************************)
(* 5_data_preparation.py                                                   *)
(***************************************************************************)
\* Lines 38-43: the dictionary event_weights.
event_weights == [e \in KnownEvents |->
    CASE e = "view" -> 1 [] e = "click" -> 2 [] e = "add_to_cart" -> 5 [] OTHER -> 10]

\* Series.map(event_weights): NaN (here 0, no weight of the dictionary) where
\* the value is no key of the dictionary; then fillna(1).
MapWeight(event_type) ==
    IF event_type \in DOMAIN event_weights THEN event_weights[event_type] ELSE 0

FillNa(w, fill) == IF w = 0 THEN fill ELSE w

\* The weight without the fillna(1) of line 44.
WeightWithoutFill(event_type) == MapWeight(event_type)

InteractionWeight(event_type) == FillNa(MapWeight(event_type), 1)

\* engineer_interaction_features: adds the column interaction_weight.
engineer_interaction_features(df) ==
    [i \in DOMAIN df |->
        [interaction_id     |-> df[i].interaction_id,
         user_id            |-> df[i].user_id,
         product_id         |-> df[i].product_id,
         event_type         |-> df[i].event_type,
         timestamp          |-> df[i].timestamp,
         interaction_weight |-> InteractionWeight(df[i].event_type)]]

\* parse_rate (lines 55-59): .get('rate', 0), and 0 whenever anything raises.
parse_rate(rating) == IF rating.kind = "dict" THEN rating.rate ELSE 0

\* MinMaxScaler: (x - data_min) * scale with scale = 1 / data_range, where a
\* data_range of 0 is replaced by 1 (sklearn's _handle_zeros_in_scale).
\* A scale that keeps a data_range of 0.
KeepRange(data_range) == data_range

HandleZerosInScale(data_range) == IF data_range = 0 THEN 1 ELSE data_range

MinMax(x, column) ==
    LET data_min == MinOf(Range(column))
        data_max == MaxOf(Range(column))
    IN  [num |-> x - data_min, den |-> HandleZerosInScale(data_max - data_min)]

\* engineer_product_features: rating_val, then norm_price and norm_rating.
engineer_product_features(df_prod) ==
    LET prices == [i \in DOMAIN df_prod |-> df_prod[i].price]
        rates  == [i \in DOMAIN df_prod |-> parse_rate(df_prod[i].rating)]
    IN  [i \in DOMAIN df_prod |->
            [id          |-> df_prod[i].id,
             category    |-> df_prod[i].category,
             price       |-> df_prod[i].price,
             rating      |-> df_prod[i].rating,
             rating_val  |-> rates[i],
             norm_price  |-> MinMax(prices[i], prices),
             norm_rating |-> MinMax(rates[i], rates)]]

GoldRow(r, category, norm_price, norm_rating) ==
    [interaction_id     |-> r.interaction_id,
     user_id            |-> r.user_id,
     product_id         |-> r.product_id,
     event_type         |-> r.event_type,
     timestamp          |-> r.timestamp,
     interaction_weight |-> r.interaction_weight,
     category           |-> category,
     norm_price         |-> norm_price,
     norm_rating        |-> norm_rating]

\* pd.merge(df_inter, df_prod[[...]], left_on='product_id', right_on='id',
\* how='left'): one row per matching product, and one row with the product's
\* columns missing where no product matches.
RECURSIVE MergeLeft(_, _)
MergeLeft(df_inter, df_prod) ==
    IF df_inter = <<>> THEN <<>>
    ELSE LET r       == Head(df_inter)
             matches == SelectSeq(df_prod, LAMBDA p : p.id = r.product_id)
             rows    == IF matches = <<>>
                        THEN <<GoldRow(r, NA, NaNFrac, NaNFrac)>>
                        ELSE [m \in DOMAIN matches |->
                                GoldRow(r, matches[m].category,
                                        matches[m].norm_price, matches[m].norm_rating)]
         IN  rows \o MergeLeft(Tail(df_inter), df_prod)

\* What run_data_preparation raises inside its try block: the sparsity
\* quotient of calculate_global_sparsity divides by n_users * n_items, and
\* MinMaxScaler refuses a table without rows.
PreparationRaises(df_inter, df_prod) == df_inter = <<>> \/ df_prod = <<>>

\* calculate_global_sparsity: the three numbers it prints; the sparsity is
\* the percentage (1 - actual / (n_users * n_items)) * 100 as a fraction.
\* nunique leaves the missing user_id out.
calculate_global_sparsity(df) ==
    LET n_users == Cardinality({df[i].user_id : i \in DOMAIN df} \ {NA})
        n_items == Cardinality({df[i].product_id : i \in DOMAIN df})
        actual_interactions ==
            Cardinality({<<df[i].user_id, df[i].product_id>> : i \in DOMAIN df})
        total_matrix_cells == n_users * n_items
    IN  [n_users  |-> n_users,
         n_items  |-> n_items,
         sparsity |-> [num |-> 100 * (total_matrix_cells - actual_interactions),
                       den |-> total_matrix_cells]]

\* Steps 2 and 4 of run_data_preparation: the gold table.
PrepareGold(df_inter, df_prod) ==
    MergeLeft(engineer_interaction_features(df_inter), engineer_product_features(df_prod))

(***************************************************************************)
(* 6_data_transformation.py                                                *)
(***************************************************************************)
\* The rows of a group, in the order of the table.
UserGroup(df, u) == SelectSeq(df, LAMBDA r : r.user_id = u)
ProductGroup(df, p) == SelectSeq(df, LAMBDA r : r.product_id = p)
PairGroup(df, u, p) == SelectSeq(df, LAMBDA r : r.user_id = u /\ r.product_id = p)

\* The columns that the aggregations read.
Weights(rows) == [i \in DOMAIN rows |-> rows[i].interaction_weight]
Timestamps(rows) == [i \in DOMAIN rows |-> rows[i].timestamp]
NormPrices(rows) == [i \in DOMAIN rows |-> rows[i].norm_price]
NormRatings(rows) == [i \in DOMAIN rows |-> rows[i].norm_rating]
CategoryColumn(rows) == [i \in DOMAIN rows |-> rows[i].category]

\* 'max' of a group's column, taken row after row.
RECURSIVE MaxSeq(_)
MaxSeq(s) ==
    IF Len(s) = 1 THEN s[1]
    ELSE LET m == MaxSeq(Tail(s)) IN IF Head(s) > m THEN Head(s) ELSE m

\* 'last' in the place of 'max': the value of the group's last row.
LastSeq(s) == s[Len(s)]

\* 'first' of a group's column: its first value that is not missing.
RECURSIVE FirstValid(_, _)
FirstValid(s, missing) ==
    IF s = <<>> THEN missing
    ELSE IF Head(s) # missing THEN Head(s) ELSE FirstValid(Tail(s), missing)

LastActive(timestamps) == MaxSeq(timestamps)

\* groupby('user_id'): a group per user_id that is not missing.
user_features(df) ==
    {LET rows == UserGroup(df, u)
         w    == Weights(rows)
     IN  [user_id             |-> u,
          user_activity_count |-> Len(w),
          user_avg_affinity   |-> [num |-> SumSeq(w), den |-> Len(w)],
          user_total_score    |-> SumSeq(w),
          last_active_ts      |-> LastActive(Timestamps(rows))] :
     u \in {df[i].user_id : i \in DOMAIN df} \ {NA}}

\* groupby('product_id'), in ascending order of product_id, with the column
\* global_popularity_score = log1p(item_interaction_count).
item_features(df) ==
    LET keys == SortedSeq({df[i].product_id : i \in DOMAIN df})
    IN  [k \in DOMAIN keys |->
            LET rows == ProductGroup(df, keys[k])
                w    == Weights(rows)
            IN  [product_id              |-> keys[k],
                 item_interaction_count  |-> Len(w),
                 item_avg_affinity       |-> [num |-> SumSeq(w), den |-> Len(w)],
                 norm_price  |-> FirstValid(NormPrices(rows), NaNFrac),
                 norm_rating |-> FirstValid(NormRatings(rows), NaNFrac),
                 category    |-> FirstValid(CategoryColumn(rows), NA),
                 global_popularity_score |-> [log1p |-> Len(w)]]]

\* The keys of groupby(['user_id', 'product_id']).
PairKeys(df) ==
    {<<df[i].user_id, df[i].product_id>> : i \in DOMAIN df} \ {<<NA, p>> : p \in ProductIds}

\* 'count' in the place of 'sum'.
AffinityCount(w) == Len(w)

\* The aggregate of the column interaction_weight of one (user, product) group.
AffinityAgg(w) == SumSeq(w)

\* groupby(['user_id', 'product_id']).agg(affinity_score = sum).
interaction_matrix(df) ==
    {[user_id        |-> k[1],
      product_id     |-> k[2],
      affinity_score |-> AffinityAgg(Weights(PairGroup(df, k[1], k[2])))] :
     k \in PairKeys(df)}

\* The totals that run_feature_transformation prints after saving.
TransformationTotals(df) ==
    [users        |-> Cardinality(user_features(df)),
     items        |-> Len(item_features(df)),
     interactions |-> Cardinality(interaction_matrix(df))]

\* run_feature_transformation: the three tables written to the feature store.
run_feature_transformation(df) ==
    [user     |-> user_features(df),
     item     |-> item_features(df),
     affinity |-> interaction_matrix(df)]

(***************************************************************************)
(* 9_model_training.py: TF-IDF over the category column                    *)
(***************************************************************************)
\* The categories of the product catalog, and the missing category that an
\* interaction without a matching product carries.
Categories == {"men's clothing", "women's clothing", "electronics", NA}

\* TfidfVectorizer(stop_words='english') on category.fillna('None'): the
\* lower-cased tokens of two or more word characters that are no English stop
\* word.  The fill value 'None' is the stop word "none", so a missing category
\* has no term at all.
Tokens(category) ==
    CASE category = "men's clothing"   -> {"men", "clothing"}
      [] category = "women's clothing" -> {"women", "clothing"}
      [] category = "electronics"      -> {"electronics"}
      [] OTHER                         -> {}

\* 100 * idf^2 with idf = ln((1 + n) / (1 + df)) + 1 (smooth_idf), rounded;
\* row n, column df.
IdfSqTable == <<
    <<100>>,
    <<198, 100>>,
    <<287, 166, 100>>,
    <<367, 228, 150, 100>>,
    <<440, 287, 198, 140, 100>>,
    <<507, 341, 243, 179, 133, 100>>,
    <<569, 392, 287, 216, 166, 128, 100>> >>

Vocabulary(items) == UNION {Tokens(items[i].category) : i \in DOMAIN items}

DocFreq(items, t) == Cardinality({i \in DOMAIN items : t \in Tokens(items[i].category)})

IdfSq(items, t) == IdfSqTable[Len(items)][DocFreq(items, t)]

RECURSIVE SumIdfSq(_, _)
SumIdfSq(items, T) ==
    IF T = {} THEN 0
    ELSE LET t == CHOOSE x \in T : TRUE
         IN  IdfSq(items, t) + SumIdfSq(items, T \ {t})

\* The unnormalised dot product of the TF-IDF rows i and j (each term of a
\* category occurs once in it, so tf = 1), and the squared length of row j.
Dot(items, i, j) == SumIdfSq(items, Tokens(items[i].category) \cap Tokens(items[j].category))
NormSq(items, j) == SumIdfSq(items, Tokens(items[j].category))

\* Row idx of linear_kernel(tfidf_matrix, tfidf_matrix).  The rows of the
\* matrix are L2-normalised, so entry j is Dot / sqrt(NormSq(idx) * NormSq(j)),
\* and 0 where a row has no term.  The entry is kept as [dot, norm]: within one
\* row NormSq(idx) is a common factor.
CosineSimRow(items, idx) ==
    [j \in DOMAIN items |-> [dot |-> Dot(items, idx, j), norm |-> NormSq(items, j)]]

\* score a > score b, both of the same row of cosine_sim.
ScoreGreater(a, b) ==
    LET na == IF a.norm = 0 THEN 1 ELSE a.norm
        nb == IF b.norm = 0 THEN 1 ELSE b.norm
    IN  a.dot * a.dot * nb > b.dot * b.dot * na

ScoreEqual(a, b) == ~ScoreGreater(a, b) /\ ~ScoreGreater(b, a)

\* sorted(sim_scores, key=lambda x: x[1], reverse=True): a stable sort, the
\* pairs of equal score keep the order they have in sim_scores.  Built by
\* inserting each pair after every pair whose score is not smaller.
RECURSIVE InsertDesc(_, _)
InsertDesc(sorted, x) ==
    IF sorted = <<>> THEN <<x>>
    ELSE IF ScoreGreater(x[2], Head(sorted)[2]) THEN <<x>> \o sorted
    ELSE <<Head(sorted)>> \o InsertDesc(Tail(sorted), x)

RECURSIVE SortedDescFrom(_, _)
SortedDescFrom(s, acc) ==
    IF s = <<>> THEN acc ELSE SortedDescFrom(Tail(s), InsertDesc(acc, Head(s)))

\* A sort that is not stable: a pair goes before the pairs of equal score.
RECURSIVE InsertDescUnstable(_, _)
InsertDescUnstable(sorted, x) ==
    IF sorted = <<>> THEN <<x>>
    ELSE IF ~ScoreGreater(Head(sorted)[2], x[2]) THEN <<x>> \o sorted
    ELSE <<Head(sorted)>> \o InsertDescUnstable(Tail(sorted), x)

RECURSIVE SortedDescUnstableFrom(_, _)
SortedDescUnstableFrom(s, acc) ==
    IF s = <<>> THEN acc
    ELSE SortedDescUnstableFrom(Tail(s), InsertDescUnstable(acc, Head(s)))

SortedUnstable(sim_scores) == SortedDescUnstableFrom(sim_scores, <<>>)

SortedByScore(sim_scores) == SortedDescFrom(sim_scores, <<>>)

\* s[lo:hi] of Python, 0-based and end-exclusive, clipped to the sequence.
Slice(s, lo, hi) ==
    LET first == lo + 1
        last  == IF hi < Len(s) THEN hi ELSE Len(s)
    IN  IF first > last THEN <<>> ELSE SubSeq(s, first, last)

\* A lookup that falls back to the first row when no row matches.
MatchingIndexOrFirst(items, product_id) ==
    LET found == SortedSeq({i \in DOMAIN items : items[i].product_id = product_id})
    IN  IF found = <<>> THEN <<1>> ELSE found

\* df_items.index[df_items['product_id'] == product_id].tolist()
MatchingIndex(items, product_id) ==
    SortedSeq({i \in DOMAIN items : items[i].product_id = product_id})

\* get_recommendations(product_id, top_n): IndexError when no row matches,
\* else the rows at the positions 1 .. top_n of the sorted scores.
get_recommendations(items, product_id, top_n) ==
    LET matches == MatchingIndex(items, product_id)
    IN  IF matches = <<>>
        THEN [raised |-> "IndexError", idx |-> 0, scores |-> <<>>, rows |-> <<>>]
        ELSE LET idx        == matches[1]
                 row        == CosineSimRow(items, idx)
                 sim_scores == [j \in DOMAIN items |-> <<j, row[j]>>]
                 top        == Slice(SortedByScore(sim_scores), 1, top_n + 1)
             IN  [raised |-> "",
                  idx    |-> idx,
                  scores |-> top,
                  rows   |-> [p \in DOMAIN top |->
                                [product_id  |-> items[top[p][1]].product_id,
                                 category    |-> items[top[p][1]].category,
                                 norm_rating |-> items[top[p][1]].norm_rating]]]

NoCall == [product_id |-> 0, top_n |-> 0, raised |-> "", idx |-> 0,
           scores |-> <<>>, rows |-> <<>>]

(***************************************************************************)
(* 7_feature_store.py: the three views run_feature_store_pipeline registers *)
(***************************************************************************)
ViewNames == {"user_signals", "item_signals", "affinity_matrix"}

ViewMeta(name) ==
    CASE name = "user_signals" ->
           [source |-> "user_feature_store.csv", entity_key |-> "user_id",
            feature_list |-> <<"user_activity_count", "user_avg_affinity", "user_total_score">>,
            version |-> "v1.1"]
      [] name = "item_signals" ->
           [source |-> "item_feature_store.csv", entity_key |-> "product_id",
            feature_list |-> <<"item_interaction_count", "global_popularity_score", "norm_rating">>,
            version |-> "v1.1"]
      [] OTHER ->
           [source |-> "user_item_affinity_matrix.csv", entity_key |-> "user_id",
            feature_list |-> <<"product_id", "affinity_score">>,
            version |-> "v1.0"]

\* The files that 6_data_transformation.py writes under the store directory,
\* and the columns of each in the order of the file.
SourceFiles ==
    {"user_feature_store.csv", "item_feature_store.csv", "user_item_affinity_matrix.csv"}

SourceColumns(path) ==
    CASE path = "user_feature_store.csv" ->
           <<"user_id", "user_activity_count", "user_avg_affinity", "user_total_score",
             "last_active_ts">>
      [] path = "item_feature_store.csv" ->
           <<"product_id", "item_interaction_count", "item_avg_affinity", "norm_price",
             "norm_rating", "category", "global_popularity_score">>
      [] OTHER ->
           <<"user_id", "product_id", "affinity_score">>

\* pd.read_csv(view["source"]): the rows of the file.  The keys of a file are
\* distinct, so its rows are a set.
SourceRows(tables, path) ==
    CASE path = "user_feature_store.csv" -> tables.user
      [] path = "item_feature_store.csv" -> Range(tables.item)
      [] OTHER -> tables.affinity

\* os.path.exists(full_source_path), the path being base_path/source_filename.
SourceExists(tables, path) == tables.exists /\ path \in SourceFiles

\* register_feature_view(name, source_filename, entity_key, features, version)
\* on an object whose registry is reg: prints and returns None when the source
\* is missing; else sets the entry of the name and dumps the whole registry to
\* metadata_registry.json.  No path of it raises.  (created_at and
\* last_updated, the time of the call, are left out.)
register_feature_view(reg, tables, name, view) ==
    IF ~SourceExists(tables, view.source)
    THEN [found |-> FALSE, raised |-> "", registry |-> reg, dumped |-> FALSE]
    ELSE [found |-> TRUE, raised |-> "", registry |-> (name :> view) @@ reg,
          dumped |-> TRUE]

\* The projection on every column of the source.
AllColumns(view) == SourceColumns(view.source)

\* cols_to_keep = [view["entity_key"]] + view["feature_list"]
ColsToKeep(view) == <<view.entity_key>> \o view.feature_list

\* One row of df[cols_to_keep].
Project(r, cols) == [c \in Range(cols) |-> r[c]]

\* get_historical_features(view_name): ValueError for a name that the object's
\* registry does not hold; read_csv raises when the file is gone and the
\* selection raises KeyError for a column the file does not have; else the
\* selected columns of every row (rows |-> source row -> its projection).
get_historical_features(reg, tables, view_name) ==
    IF view_name \notin DOMAIN reg
    THEN [raised |-> "ValueError", returned |-> "", columns |-> <<>>, rows |-> <<>>]
    ELSE LET view == reg[view_name]
             cols == ColsToKeep(view)
         IN  IF ~SourceExists(tables, view.source)
             THEN [raised |-> "FileNotFoundError", returned |-> "", columns |-> <<>>,
                   rows |-> <<>>]
             ELSE IF ~(Range(cols) \subseteq Range(SourceColumns(view.source)))
             THEN [raised |-> "KeyError", returned |-> "", columns |-> <<>>, rows |-> <<>>]
             ELSE [raised |-> "", returned |-> "DataFrame", columns |-> cols,
                   rows |-> [r \in SourceRows(tables, view.source) |-> Project(r, cols)]]

\* str() of an integer that is not negative.
Digit == <<"0", "1", "2", "3", "4", "5", "6", "7", "8", "9">>

RECURSIVE Decimal(_)
Decimal(n) == IF n < 10 THEN Digit[n + 1] ELSE Decimal(n \div 10) \o Digit[(n % 10) + 1]

\* str(entity_id): an argument is an int or a str.
PyStr(entity_id) ==
    IF entity_id.type = "int" THEN Decimal(entity_id.value) ELSE entity_id.value

\* df[entity_key].astype(str): read_csv gives product_id as integers and
\* user_id as text.
AsTypeStr(column, v) == IF column = "product_id" THEN Decimal(v) ELSE v

\* A retrieval that returns the selection also when it is empty.
AlwaysFrame(result, cols) ==
    [raised |-> "", returned |-> "DataFrame", columns |-> cols, rows |-> result]

\* if result.empty: return None; return result
OnlineResult(result, cols) ==
    IF DOMAIN result = {}
    THEN [raised |-> "", returned |-> "None", columns |-> <<>>, rows |-> <<>>]
    ELSE [raised |-> "", returned |-> "DataFrame", columns |-> cols, rows |-> result]

\* get_online_feature(view_name, entity_id): what get_historical_features
\* raises, else the rows whose key, as text, equals the text of entity_id.
get_online_feature(reg, tables, view_name, entity_id) ==
    LET df == get_historical_features(reg, tables, view_name)
    IN  IF df.raised # ""
        THEN df
        ELSE LET entity_key == reg[view_name].entity_key
                 hit == {r \in DOMAIN df.rows :
                           AsTypeStr(entity_key, df.rows[r][entity_key]) = PyStr(entity_id)}
             IN  OnlineResult([r \in hit |-> df.rows[r]], df.columns)

(***************************************************************************)
(* The files and the run, at rest                                          *)
(***************************************************************************)
NoFile == [exists |-> FALSE, rows |-> <<>>]
File(rows) == [exists |-> TRUE, rows |-> rows]

NoTables == [exists |-> FALSE, user |-> {}, item |-> <<>>, affinity |-> {}]

Stages == <<"ingestion", "validation", "preparation", "transformation",
            "feature_store", "model_training">>
StageSet == Range(Stages)
Downstream == StageSet \ {"ingestion"}

\* returncode -1: the script was not run.
NotRun == [returncode |-> -1, produced |-> FALSE]
NoReport == [s \in StageSet |-> NotRun]

NoAudit == [ran |-> FALSE, error |-> FALSE, inter_success |-> FALSE,
            prod_success |-> FALSE, inter_batch |-> 0, prod_batch |-> 0]
NoRead == [ran |-> FALSE, tier |-> "", inter_dt |-> 0, prod_dt |-> 0]
NoFrames == [df_inter |-> <<>>, df_prod |-> <<>>]
NoMetrics == [preparation |-> <<>>, transformation |-> <<>>]
NoSource == [csv |-> NoFile, api |-> NoFile]

LakeEmpty ==
    /\ bronzeI = <<>> /\ bronzeP = <<>>
    /\ silverI = <<>> /\ silverP = <<>>
    /\ gold = NoFile
    /\ fstore = NoTables
    /\ registry = <<>>

RunIdle ==
    /\ run = 0
    /\ pc = "idle"
    /\ source = NoSource
    /\ report = NoReport
    /\ audit = NoAudit
    /\ prep_read = NoRead
    /\ prep_frames = NoFrames
    /\ metrics = NoMetrics

RecIdle ==
    /\ df_items = <<>>
    /\ rec_state = "loaded"
    /\ recs = NoCall

\* No RecomartFeatureStore object is constructed and no method was called.
NoStoreCall == [op |-> "none", n |-> 0]

StoreIdle ==
    /\ fs = <<>>
    /\ call = NoStoreCall

(***************************************************************************)
(* Specification SpecRec: the recommender over every small item table      *)
(***************************************************************************)
\* item_feature_store.csv holds one row per product id, in ascending id order
\* (the groupby of 6_data_transformation.py).
ItemTables(ids) ==
    {[i \in 1..Cardinality(S) |->
        [product_id  |-> SortedSeq(S)[i],
         category    |-> c[SortedSeq(S)[i]],
         norm_rating |-> [num |-> 1, den |-> 2]]] :
     S \in SUBSET ids \ {{}}, c \in [ids -> Categories]}

RecInit ==
    /\ LakeEmpty
    /\ RunIdle
    /\ StoreIdle
    /\ df_items \in ItemTables(ProductIds)
    /\ rec_state = "loaded"
    /\ recs = NoCall

\* tfidf.fit_transform: ValueError (empty vocabulary) when no category has a term.
Fit ==
    /\ rec_state = "loaded"
    /\ rec_state' = IF Vocabulary(df_items) = {} THEN "error" ELSE "fitted"
    /\ UNCHANGED <<df_items, recs, lakeVars, runVars, storeVars>>

\* get_recommendations reads df_items and cosine_sim and writes nothing, so a
\* call leaves no trace for the next one: one call is explored per fitted model.
Recommend ==
    /\ rec_state = "fitted"
    /\ recs = NoCall
    /\ \E product_id \in 0..MaxProductId, top_n \in 1..MaxTopN :
         LET r == get_recommendations(df_items, product_id, top_n)
         IN  recs' = [product_id |-> product_id, top_n |-> top_n,
                      raised |-> r.raised, idx |-> r.idx,
                      scores |-> r.scores, rows |-> r.rows]
    /\ UNCHANGED <<df_items, rec_state, lakeVars, runVars, storeVars>>

RecNext == Fit \/ Recommend

SpecRec == RecInit /\ [][RecNext]_vars

(***************************************************************************)
(* Specification Spec: orchestrated runs of the pipeline                   *)
(***************************************************************************)
Inter(id, u, p, e, t) ==
    [interaction_id |-> id, user_id |-> u, product_id |-> p, event_type |-> e,
     timestamp |-> t]

Prod(id, c, price, rating) == [id |-> id, category |-> c, price |-> price, rating |-> rating]

\* What source_data/interactions.csv may hold when a run starts: two files
\* that pass the interaction suite, and one with a repeated interaction_id.
SourceCsvs ==
    {<<Inter(1, "U1", 1, "view", 1), Inter(2, "U1", 2, "purchase", 2),
       Inter(3, "U2", 1, "click", 3)>>,
     <<Inter(1, "U2", 2, "add_to_cart", 4), Inter(2, "U1", 3, "view", 5)>>,
     <<Inter(1, "U1", 1, "view", 1), Inter(1, "U2", 2, "click", 2)>>}

\* What the product API may answer: a catalog that passes the product suite,
\* one with an empty rating cell (passes: the expectation skips it), one with
\* a price of 0 (fails) and one whose rating text is no literal.
ApiResponses ==
    {<<Prod(1, "electronics", 1000, RatingDict(39)),
       Prod(2, "men's clothing", 2500, RatingDict(45))>>,
     <<Prod(1, "electronics", 1000, RatingNaN),
       Prod(2, "women's clothing", 1000, RatingDict(41))>>,
     <<Prod(1, "electronics", 0, RatingDict(39)),
       Prod(2, "men's clothing", 2500, RatingDict(45))>>,
     <<Prod(1, "electronics", 1000, RatingMalformed),
       Prod(2, "men's clothing", 2500, RatingDict(45))>>}

\* max(folders): the dt_ directory whose name is largest.
Latest(batches) == MaxOf(DOMAIN batches)

Write(batches, dt, rows) == (dt :> rows) @@ batches

\* run_script (10_orchestration.py, lines 6-24): the run goes on to the next
\* stage when the script's returncode is 0, and raises otherwise.
NextStage(stage) ==
    CASE stage = "ingestion"      -> "validation"
      [] stage = "validation"     -> "preparation"
      [] stage = "preparation"    -> "transformation"
      [] stage = "transformation" -> "feature_store"
      [] stage = "feature_store"  -> "model_training"
      [] OTHER                    -> "done"

RunScript(stage, returncode, produced) ==
    /\ report' = [report EXCEPT ![stage] = [returncode |-> returncode, produced |-> produced]]
    /\ pc' = IF returncode = 0 THEN NextStage(stage) ELSE "failed"

Init ==
    /\ LakeEmpty
    /\ RunIdle
    /\ RecIdle
    /\ StoreIdle

\* A run is materialised; the sources hold what they hold at that time.
StartRun ==
    /\ pc \in {"idle", "done", "failed"}
    /\ run < MaxRuns
    /\ run' = run + 1
    /\ pc' = "ingestion"
    /\ \E csv \in {NoFile} \cup {File(rows) : rows \in SourceCsvs},
          api \in {NoFile} \cup {File(rows) : rows \in ApiResponses} :
         source' = [csv |-> csv, api |-> api]
    /\ report' = NoReport
    /\ audit' = NoAudit
    /\ prep_read' = NoRead
    /\ prep_frames' = NoFrames
    /\ metrics' = NoMetrics
    /\ UNCHANGED <<lakeVars, recVars, storeVars>>

\* 2-3_batch_ingestion.py: both ingest functions catch every exception and
\* log it, so the script ends with returncode 0 whatever the sources did.
\* A missing csv file, or an API call that still fails after its retries or
\* its timeout, writes no batch.
Ingest ==
    /\ pc = "ingestion"
    /\ bronzeI' = IF source.csv.exists THEN Write(bronzeI, run, source.csv.rows) ELSE bronzeI
    /\ bronzeP' = IF source.api.exists THEN Write(bronzeP, run, source.api.rows) ELSE bronzeP
    /\ RunScript("ingestion", 0, source.csv.exists /\ source.api.exists)
    /\ UNCHANGED <<silverI, silverP, gold, fstore, registry, run, source, audit,
                   prep_read, prep_frames, metrics, recVars, storeVars>>

\* 4_data_validation.py: run_advanced_validation.  Everything is inside one
\* try block whose handler prints the error, so the returncode is 0.
Validate ==
    /\ pc = "validation"
    /\ IF bronzeI = <<>> \/ bronzeP = <<>>
       THEN /\ audit' = [NoAudit EXCEPT !.ran = TRUE, !.error = TRUE]
            /\ UNCHANGED <<silverI, silverP>>
            /\ RunScript("validation", 0, FALSE)
       ELSE LET inter_batch == Latest(bronzeI)
                prod_batch  == Latest(bronzeP)
                df_inter    == bronzeI[inter_batch]
                df_prod     == bronzeP[prod_batch]
                raises      == PreprocessRaises(df_prod)
                promote     == ~raises /\ PromotionOk(df_inter, df_prod)
            IN  /\ audit' = [ran |-> TRUE, error |-> raises,
                             inter_success |-> ~raises /\ InterSuite(df_inter),
                             prod_success  |-> ~raises /\ ProdSuite(df_prod),
                             inter_batch |-> inter_batch, prod_batch |-> prod_batch]
                /\ silverI' = IF promote THEN Write(silverI, inter_batch, df_inter) ELSE silverI
                /\ silverP' = IF promote THEN Write(silverP, prod_batch, df_prod) ELSE silverP
                /\ RunScript("validation", 0, promote)
    /\ UNCHANGED <<bronzeI, bronzeP, gold, fstore, registry, run, source, prep_read,
                   prep_frames, metrics, recVars, storeVars>>

\* 5_data_preparation.py: run_data_preparation, again inside one try block.
Prepare ==
    /\ pc = "preparation"
    /\ IF silverI = <<>> \/ silverP = <<>>
       THEN /\ prep_read' = [NoRead EXCEPT !.ran = TRUE]
            /\ UNCHANGED <<gold, prep_frames, metrics>>
            /\ RunScript("preparation", 0, FALSE)
       ELSE LET inter_dt == Latest(silverI)
                prod_dt  == Latest(silverP)
                df_inter == silverI[inter_dt]
                df_prod  == silverP[prod_dt]
                raises   == PreparationRaises(df_inter, df_prod)
            IN  /\ prep_read' = [ran |-> TRUE, tier |-> "silver",
                                 inter_dt |-> inter_dt, prod_dt |-> prod_dt]
                /\ prep_frames' =
                     IF raises THEN prep_frames
                     ELSE [df_inter |-> engineer_interaction_features(df_inter),
                           df_prod  |-> engineer_product_features(df_prod)]
                /\ metrics' =
                     IF raises THEN metrics
                     ELSE [metrics EXCEPT !.preparation =
                             calculate_global_sparsity(engineer_interaction_features(df_inter))]
                /\ gold' = IF raises THEN gold ELSE File(PrepareGold(df_inter, df_prod))
                /\ RunScript("preparation", 0, ~raises)
    /\ UNCHANGED <<bronzeI, bronzeP, silverI, silverP, fstore, registry, run, source,
                   audit, recVars, storeVars>>

\* 6_data_transformation.py: prints an error and returns when the gold file
\* is missing.
Transform ==
    /\ pc = "transformation"
    /\ fstore' = IF gold.exists
                 THEN LET t == run_feature_transformation(gold.rows)
                      IN  [exists |-> TRUE, user |-> t.user, item |-> t.item,
                           affinity |-> t.affinity]
                 ELSE fstore
    /\ metrics' = IF gold.exists
                  THEN [metrics EXCEPT !.transformation = TransformationTotals(gold.rows)]
                  ELSE metrics
    /\ RunScript("transformation", 0, gold.exists)
    /\ UNCHANGED <<bronzeI, bronzeP, silverI, silverP, gold, registry, run, source,
                   audit, prep_read, prep_frames, recVars, storeVars>>

\* 7_feature_store.py: register_feature_view prints an error and returns
\* when its source file is missing; the retrieval demo is inside a try block.
FeatureStore ==
    /\ pc = "feature_store"
    /\ registry' = IF fstore.exists THEN [n \in ViewNames |-> ViewMeta(n)] ELSE registry
    /\ RunScript("feature_store", 0, fstore.exists)
    /\ UNCHANGED <<bronzeI, bronzeP, silverI, silverP, gold, fstore, run, source,
                   audit, prep_read, prep_frames, metrics, recVars, storeVars>>

\* 9_model_training.py: nothing is caught.  pd.read_csv raises when the item
\* table is missing and fit_transform raises on an empty vocabulary; else the
\* sample call get_recommendations(first product_id) is made.
Train ==
    /\ pc = "model_training"
    /\ IF ~fstore.exists
       THEN /\ UNCHANGED recVars
            /\ RunScript("model_training", 1, FALSE)
       ELSE /\ df_items' = fstore.item
            /\ IF Vocabulary(fstore.item) = {}
               THEN /\ rec_state' = "error"
                    /\ recs' = NoCall
                    /\ RunScript("model_training", 1, FALSE)
               ELSE LET sample_id == fstore.item[1].product_id
                        r == get_recommendations(fstore.item, sample_id, DefaultTopN)
                    IN  /\ rec_state' = "fitted"
                        /\ recs' = [product_id |-> sample_id, top_n |-> DefaultTopN,
                                    raised |-> r.raised, idx |-> r.idx,
                                    scores |-> r.scores, rows |-> r.rows]
                        /\ RunScript("model_training", 0, TRUE)
    /\ UNCHANGED <<lakeVars, run, source, audit, prep_read, prep_frames, metrics,
                   storeVars>>

Next ==
    \/ StartRun
    \/ Ingest
    \/ Validate
    \/ Prepare
    \/ Transform
    \/ FeatureStore
    \/ Train

Spec == Init /\ [][Next]_vars

(***************************************************************************)
(* Specification SpecFeat: the preparation and the transformation stage    *)
(* over every small silver table.  The silver directory holds one batch;   *)
(* the run is about to execute 5_data_preparation.py.                      *)
(***************************************************************************)
SampleCatalog ==
    <<Prod(1, "electronics", 1000, RatingDict(39)),
      Prod(2, "men's clothing", 2500, RatingDict(45))>>

SampleInteractions == <<Inter(1, "U1", 1, "view", 1)>>

\* The tables of n rows whose row i has interaction_id i and timestamp i and
\* takes its other fields from the given sets.
InteractionTables(n, users, products, events) ==
    {[i \in 1..n |-> Inter(i, f[i][1], f[i][2], f[i][3], i)] :
     f \in [1..n -> users \X products \X events]}

\* Inputs of the weighting: one or two rows of any event_type, known,
\* unknown or missing.
WeightInputs(max_rows) ==
    UNION {InteractionTables(n, {"U1", "U2"}, {1, 2}, KnownEvents \cup {"wishlist", NA}) :
           n \in 1..max_rows}

\* Inputs of the aggregation: product 1 is catalogued, product 3 is in no catalog.
AggInputs(max_rows) ==
    UNION {InteractionTables(n, {"U1", "U2"}, {1, 3}, {"view", "purchase"}) :
           n \in 1..max_rows}

\* Inputs of the normalisation: product tables with distinct ids.
CatalogInputs(max_rows) ==
    UNION {{[i \in 1..n |-> Prod(i, "electronics", f[i][1], f[i][2])] :
            f \in [1..n -> {500, 1000, 2000} \X
                           {RatingDict(20), RatingDict(45), RatingNoRate,
                            RatingMalformed, RatingNaN}]} :
           n \in 1..max_rows}

FeatInit ==
    /\ bronzeI = <<>> /\ bronzeP = <<>>
    /\ \/ /\ silverI \in {Write(<<>>, 1, df_inter) :
                          df_inter \in WeightInputs(2) \cup AggInputs(MaxRows)}
          /\ silverP = Write(<<>>, 1, SampleCatalog)
       \/ /\ silverI = Write(<<>>, 1, SampleInteractions)
          /\ silverP \in {Write(<<>>, 1, df_prod) :
                          df_prod \in CatalogInputs(MaxCatalog) \cup {SampleCatalog}}
    /\ gold = NoFile
    /\ fstore = NoTables
    /\ registry = <<>>
    /\ run = 1
    /\ pc = "preparation"
    /\ source = NoSource
    /\ report = NoReport
    /\ audit = NoAudit
    /\ prep_read = NoRead
    /\ prep_frames = NoFrames
    /\ metrics = NoMetrics
    /\ RecIdle
    /\ StoreIdle

FeatNext == Prepare \/ Transform

SpecFeat == FeatInit /\ [][FeatNext]_vars

(***************************************************************************)
(* Specification SpecStore: RecomartFeatureStore objects of two processes  *)
(* (two runs of 7_feature_store.py, or any two callers) over one store     *)
(* directory.  Each method call is one step; the steps of the two          *)
(* processes interleave.                                                   *)
(***************************************************************************)
Stores == {"run_a", "run_b"}

\* The store files that 6_data_transformation.py writes for a small gold
\* table: two users, two products, three pairs.
StoreInteractions ==
    <<Inter(1, "U1", 1, "view", 1), Inter(2, "U1", 2, "purchase", 2),
      Inter(3, "U2", 1, "click", 3)>>

StoreTables ==
    LET t == run_feature_transformation(PrepareGold(StoreInteractions, SampleCatalog))
    IN  [exists |-> TRUE, user |-> t.user, item |-> t.item, affinity |-> t.affinity]

\* What the pipeline leaves in metadata_registry.json.
PipelineRegistry == [n \in ViewNames |-> ViewMeta(n)]

\* A second declaration of item_signals: other features, in another order
\* than the file's columns, and another version.
ItemViewV2 ==
    [source |-> "item_feature_store.csv", entity_key |-> "product_id",
     feature_list |-> <<"category", "norm_rating">>, version |-> "v2.0"]

\* The arguments of the register_feature_view calls.
RegisterArgs ==
    {[name |-> n, view |-> ViewMeta(n)] : n \in ViewNames}
        \cup {[name |-> "item_signals", view |-> ItemViewV2]}

\* The entity_id arguments: a user and a product of the tables, given as the
\* type of the column or as text, and ids that no row has.
EntityIds ==
    {[type |-> "str", value |-> "U1"], [type |-> "str", value |-> "U9"],
     [type |-> "int", value |-> 1], [type |-> "str", value |-> "1"],
     [type |-> "int", value |-> 3]}

GetOps == {"get_historical_features", "get_online_feature"}

StoreInit ==
    /\ bronzeI = <<>> /\ bronzeP = <<>>
    /\ silverI = <<>> /\ silverP = <<>>
    /\ gold = NoFile
    /\ \/ fstore = NoTables /\ registry = <<>>
       \/ fstore = StoreTables /\ registry \in {<<>>, PipelineRegistry}
    /\ RunIdle
    /\ RecIdle
    /\ StoreIdle

\* RecomartFeatureStore(): __init__ loads metadata_registry.json, or starts
\* with no view when the file does not exist.
NewStore ==
    /\ call.op \notin GetOps
    /\ \E i \in Stores \ DOMAIN fs :
         fs' = (i :> registry) @@ fs
    /\ UNCHANGED <<call, lakeVars, runVars, recVars>>

\* fs.register_feature_view(...) on a constructed object.
Register ==
    /\ call.op \notin GetOps
    /\ call.n < MaxRegistrations
    /\ \E i \in DOMAIN fs, a \in RegisterArgs :
         LET r == register_feature_view(fs[i], fstore, a.name, a.view)
         IN  /\ fs' = [fs EXCEPT ![i] = r.registry]
             /\ registry' = IF r.dumped THEN r.registry ELSE registry
             /\ call' = [op |-> "register_feature_view", store |-> i, name |-> a.name,
                         view |-> a.view, found |-> r.found, raised |-> r.raised,
                         mem_before |-> fs[i], disk_before |-> registry,
                         n |-> call.n + 1]
    /\ UNCHANGED <<bronzeI, bronzeP, silverI, silverP, gold, fstore, runVars, recVars>>

\* The retrievals read the object's registry and a store file and write
\* nothing, so a retrieval leaves no trace for the calls after it: it is
\* explored as the last call.
GetHistorical ==
    /\ call.op \notin GetOps
    /\ \E i \in DOMAIN fs, view_name \in ViewNames :
         LET r == get_historical_features(fs[i], fstore, view_name)
         IN  call' = [op |-> "get_historical_features", store |-> i, name |-> view_name,
                      raised |-> r.raised, returned |-> r.returned,
                      columns |-> r.columns, rows |-> r.rows, n |-> call.n]
    /\ UNCHANGED <<fs, lakeVars, runVars, recVars>>

GetOnline ==
    /\ call.op \notin GetOps
    /\ \E i \in DOMAIN fs, view_name \in ViewNames, entity_id \in EntityIds :
         LET r == get_online_feature(fs[i], fstore, view_name, entity_id)
         IN  call' = [op |-> "get_online_feature", store |-> i, name |-> view_name,
                      entity_id |-> entity_id,
                      raised |-> r.raised, returned |-> r.returned,
                      columns |-> r.columns, rows |-> r.rows, n |-> call.n]
    /\ UNCHANGED <<fs, lakeVars, runVars, recVars>>

StoreNext ==
    \/ NewStore
    \/ Register
    \/ GetHistorical
    \/ GetOnline

SpecStore == StoreInit /\ [][StoreNext]_vars

(***************************************************************************)
(* Claims about the recommender                                            *)
(***************************************************************************)
Called == recs.product_id # 0 /\ recs.raised = ""

\* C1: get_recommendations(product_id, k) never returns the queried product_id
\* itself among its results, for every item table and every k >= 1.
C1_NeverReturnsQueried ==
    Called => \A p \in DOMAIN recs.rows : recs.rows[p].product_id # recs.product_id

\* The similarities of the catalog rows to the queried row.
SimRow == CosineSimRow(df_items, recs.idx)

\* The number of catalog rows that come before row j when the catalog is
\* arranged by non-increasing similarity, rows of equal similarity in catalog
\* order.
Rank(j) ==
    Cardinality({i \in DOMAIN df_items :
        \/ ScoreGreater(SimRow[i], SimRow[j])
        \/ ScoreEqual(SimRow[i], SimRow[j]) /\ i < j})

\* C10: the list returned by get_recommendations is ordered by non-increasing
\* similarity to the queried item, items of equal similarity are in catalog
\* order, and the list is determined by the catalog, product_id and k alone:
\* it is the positions 1 .. k of the one arrangement of the catalog that is
\* ordered so.
C10_SortedStable ==
    Called =>
        /\ Len(recs.scores) = IF recs.top_n < Len(df_items) - 1
                              THEN recs.top_n ELSE Len(df_items) - 1
        /\ Len(recs.rows) = Len(recs.scores)
        /\ \A p \in DOMAIN recs.scores :
             /\ Rank(recs.scores[p][1]) = p
             /\ recs.scores[p][2] = SimRow[recs.scores[p][1]]
             /\ recs.rows[p].product_id = df_items[recs.scores[p][1]].product_id
        /\ \A p, q \in DOMAIN recs.scores :
             p < q =>
                /\ ~ScoreGreater(recs.scores[q][2], recs.scores[p][2])
                /\ ScoreEqual(recs.scores[p][2], recs.scores[q][2])
                      => recs.scores[p][1] < recs.scores[q][1]

\* A call that returns three rows, two of them of equal similarity and one of
\* a strictly greater one.
C10_Witness ==
    /\ Called
    /\ Len(recs.scores) = 3
    /\ ScoreGreater(recs.scores[1][2], recs.scores[2][2])
    /\ ScoreEqual(recs.scores[2][2], recs.scores[3][2])

\* A call of get_recommendations was made, and the product ids of the table.
CallMade == recs.top_n # 0
ItemIds == {df_items[i].product_id : i \in DOMAIN df_items}

\* C11: get_recommendations called with a product_id that no row of the item
\* table has raises an error (IndexError, the not-found condition) and
\* returns no list, empty or partial; with a product_id of the table it
\* returns a list.
C11_UnknownRaises ==
    CallMade =>
        /\ recs.product_id \notin ItemIds => recs.raised = "IndexError" /\ recs.rows = <<>>
        /\ recs.product_id \in ItemIds => recs.raised = ""

\* A call with a product id of the catalog range that the table, of two or
\* more rows, does not hold.
C11_Witness ==
    /\ CallMade
    /\ recs.product_id \in ProductIds \ ItemIds
    /\ Len(df_items) >= 2
    /\ recs.raised = "IndexError"

(***************************************************************************)
(* Claims about the preparation and the transformation                     *)
(***************************************************************************)
Prepared == report["preparation"].produced
Transformed == report["transformation"].produced

RECURSIVE SumOver(_, _)
SumOver(S, val) ==
    IF S = {} THEN 0
    ELSE LET x == CHOOSE y \in S : TRUE IN val[x] + SumOver(S \ {x}, val)

GoldIndexes(u) == {i \in DOMAIN gold.rows : gold.rows[i].user_id = u}
GoldUsers == {gold.rows[i].user_id : i \in DOMAIN gold.rows}
GoldPairs == {<<gold.rows[i].user_id, gold.rows[i].product_id>> : i \in DOMAIN gold.rows}

\* C5: the affinity matrix has exactly one row per distinct (user_id,
\* product_id) pair of the input, and for every user the affinity_score of the
\* user's rows adds up to the interaction_weight of all the user's interactions.
C5_AffinityRows ==
    Transformed =>
        /\ \A a, b \in fstore.affinity :
             (a.user_id = b.user_id /\ a.product_id = b.product_id) => a = b
        /\ {<<a.user_id, a.product_id>> : a \in fstore.affinity} = GoldPairs
        /\ Cardinality(fstore.affinity) = Cardinality(GoldPairs)
        /\ \A u \in GoldUsers :
             SumOver({a \in fstore.affinity : a.user_id = u},
                     [a \in fstore.affinity |-> a.affinity_score])
               = SumOver(GoldIndexes(u),
                         [i \in DOMAIN gold.rows |-> gold.rows[i].interaction_weight])

\* Three interactions of one user, two of them with the same product.
C5_Witness ==
    /\ Transformed
    /\ Len(gold.rows) = 3
    /\ Cardinality(fstore.affinity) = 2
    /\ \E a \in fstore.affinity : a.affinity_score = 11

\* The tables that hold the rows of a table in another order.
Permuted(rows) ==
    {[i \in DOMAIN rows |-> rows[f[i]]] : f \in Permutations(DOMAIN rows)}

\* C6: the aggregation does not depend on the order of the interaction rows:
\* every permutation of the input gives the same user rows, item rows and
\* affinity rows.
C6_OrderIndependent ==
    Transformed =>
        \A shuffled \in Permuted(gold.rows) :
            run_feature_transformation(shuffled)
              = [user |-> fstore.user, item |-> fstore.item, affinity |-> fstore.affinity]

\* Three interactions, the two users both on product 1 with different
\* weights, the later row of user U1 first in the table.
C6_Witness ==
    /\ Transformed
    /\ Len(gold.rows) = 3
    /\ gold.rows[1].user_id = "U1" /\ gold.rows[3].user_id = "U1"
    /\ gold.rows[2].user_id = "U2"
    /\ gold.rows[1].product_id = 1 /\ gold.rows[2].product_id = 1
    /\ gold.rows[1].interaction_weight # gold.rows[2].interaction_weight
    /\ \E r \in fstore.user : r.user_id = "U1" /\ r.last_active_ts = 3

\* The weights as the data model states them.
ClaimedWeight(event_type) ==
    CASE event_type = "view"        -> 1
      [] event_type = "click"       -> 2
      [] event_type = "add_to_cart" -> 5
      [] event_type = "purchase"    -> 10
      [] OTHER                      -> 1

\* C7: interaction_weight is a total function of event_type alone: view 1,
\* click 2, add_to_cart 5, purchase 10, and 1 for every other event_type,
\* unknown or missing; the derivation never raises.
C7_WeightTotal ==
    (prep_read.ran /\ pc # "preparation") =>
        /\ Prepared
        /\ Len(prep_frames.df_inter) = Len(silverI[1])
        /\ \A i \in DOMAIN prep_frames.df_inter :
             /\ prep_frames.df_inter[i].event_type = silverI[1][i].event_type
             /\ prep_frames.df_inter[i].interaction_weight
                  = ClaimedWeight(silverI[1][i].event_type)
        /\ \A i, j \in DOMAIN prep_frames.df_inter :
             prep_frames.df_inter[i].event_type = prep_frames.df_inter[j].event_type
               => prep_frames.df_inter[i].interaction_weight
                    = prep_frames.df_inter[j].interaction_weight

\* Two rows of different users and products, one of an unknown event_type and
\* one without event_type.
C7_Witness ==
    /\ Prepared
    /\ Len(prep_frames.df_inter) = 2
    /\ prep_frames.df_inter[1].event_type = "wishlist"
    /\ prep_frames.df_inter[2].event_type = NA
    /\ prep_frames.df_inter[1].user_id # prep_frames.df_inter[2].user_id
    /\ prep_frames.df_inter[1].product_id # prep_frames.df_inter[2].product_id

\* The fraction q is a number of [0, 1]; a denominator of 0 is no number.
InUnitInterval(q) == q.den > 0 /\ 0 <= q.num /\ q.num <= q.den

\* q = (x - min) / (max - min) over the column, and 0 when max = min.
IsMinMaxOf(q, x, column) ==
    LET lo == MinOf(Range(column))
        hi == MaxOf(Range(column))
    IN  IF hi = lo THEN q.num = 0 ELSE q.num * (hi - lo) = (x - lo) * q.den

CatalogIds == {prep_frames.df_prod[i].id : i \in DOMAIN prep_frames.df_prod}
Unmatched ==
    {i \in DOMAIN prep_frames.df_inter : prep_frames.df_inter[i].product_id \notin CatalogIds}

\* Each unmatched interaction is one row of the gold table, its item-side
\* fields missing.
UnmatchedKept ==
    \A i \in Unmatched :
        LET r == prep_frames.df_inter[i]
            g == {j \in DOMAIN gold.rows : gold.rows[j].interaction_id = r.interaction_id}
        IN  /\ Cardinality(g) = 1
            /\ \A j \in g : gold.rows[j] = GoldRow(r, NA, NaNFrac, NaNFrac)

\* Each unmatched interaction is counted in its user's row, its product's
\* row and its pair's row of the feature store.
UnmatchedAggregated ==
    \A i \in Unmatched :
        LET r  == prep_frames.df_inter[i]
            of_user == {j \in DOMAIN prep_frames.df_inter :
                          prep_frames.df_inter[j].user_id = r.user_id}
            of_item == {j \in DOMAIN prep_frames.df_inter :
                          prep_frames.df_inter[j].product_id = r.product_id}
            of_pair == of_user \cap of_item
            w  == [j \in DOMAIN prep_frames.df_inter |->
                     prep_frames.df_inter[j].interaction_weight]
        IN  /\ \E u \in fstore.user :
                 /\ u.user_id = r.user_id
                 /\ u.user_activity_count = Cardinality(of_user)
                 /\ u.user_total_score = SumOver(of_user, w)
            /\ \E k \in DOMAIN fstore.item :
                 /\ fstore.item[k].product_id = r.product_id
                 /\ fstore.item[k].item_interaction_count = Cardinality(of_item)
                 /\ fstore.item[k].category = NA
                 /\ fstore.item[k].norm_price = NaNFrac
                 /\ fstore.item[k].norm_rating = NaNFrac
            /\ \E a \in fstore.affinity :
                 /\ a.user_id = r.user_id /\ a.product_id = r.product_id
                 /\ a.affinity_score = SumOver(of_pair, w)

\* The number n is one of the numbers the two stages print.
Printed(n) ==
    \/ n \in {metrics.preparation.n_users, metrics.preparation.n_items}
    \/ metrics.preparation.sparsity.num = n * metrics.preparation.sparsity.den
    \/ n \in {metrics.transformation.users, metrics.transformation.items,
              metrics.transformation.interactions}

\* C15: when an interaction references a product_id that the product table
\* does not hold, preparation and transformation complete, the interaction is
\* kept with category, norm_price and norm_rating missing, it is counted in
\* the user, item and affinity aggregates, and the number of unmatched
\* interactions is among the numbers the stages print.
C15_UnmatchedKeptAndCounted ==
    (prep_read.ran /\ Unmatched # {}) =>
        /\ Prepared
        /\ UnmatchedKept
        /\ pc \notin {"preparation", "transformation"} =>
              /\ Transformed
              /\ UnmatchedAggregated
              /\ Printed(Cardinality(Unmatched))

\* The same without the printed count: what the two stages do for an
\* unmatched interaction.
C15_KeptAndAggregated ==
    (prep_read.ran /\ Unmatched # {}) =>
        /\ Prepared
        /\ UnmatchedKept
        /\ pc \notin {"preparation", "transformation"} =>
              /\ Transformed
              /\ UnmatchedAggregated

(***************************************************************************)
(* Claims about the feature store                                          *)
(***************************************************************************)
RegisterCalled == call.op = "register_feature_view"
HistCalled == call.op = "get_historical_features"
OnlineCalled == call.op = "get_online_feature"

\* What a register_feature_view call does to the object's registry and to
\* metadata_registry.json: nothing when the source is missing, else the entry
\* of the name is set and the object's whole registry is the file.
RegistryEffect ==
    RegisterCalled =>
        /\ ~SourceExists(fstore, call.view.source) =>
              /\ fs[call.store] = call.mem_before
              /\ registry = call.disk_before
        /\ SourceExists(fstore, call.view.source) =>
              /\ call.raised = ""
              /\ DOMAIN fs[call.store] = DOMAIN call.mem_before \cup {call.name}
              /\ fs[call.store][call.name] = call.view
              /\ \A n \in DOMAIN call.mem_before \ {call.name} :
                    fs[call.store][n] = call.mem_before[n]
              /\ registry = fs[call.store]

\* C12: register_feature_view raises an error to its caller when the source
\* file does not exist at the call, and then changes neither the object's
\* registry nor metadata_registry.json; when the source exists it sets the
\* metadata of the name, overwriting an earlier entry, and persists the whole
\* registry.
C12_RegisterRaisesOrPersists ==
    /\ RegistryEffect
    /\ (RegisterCalled /\ ~SourceExists(fstore, call.view.source)) => call.raised # ""

\* A registration that replaced an earlier entry of its name by other metadata.
C12_OverwriteReached ==
    /\ RegisterCalled
    /\ call.name \in DOMAIN call.mem_before
    /\ call.mem_before[call.name] # call.view
    /\ registry[call.name] = call.view

\* C13: get_historical_features of a registered view with at least one
\* feature returns the columns entity_key, then the declared features in
\* their declared order, and no other column of the source, for every row of
\* the source; for a name that is not registered it raises ValueError and
\* returns nothing.
C13_ExactColumns ==
    HistCalled =>
        LET reg == fs[call.store]
        IN  /\ call.name \notin DOMAIN reg =>
                  call.raised = "ValueError" /\ call.returned = ""
            /\ (call.name \in DOMAIN reg /\ Len(reg[call.name].feature_list) >= 1) =>
                  LET view == reg[call.name]
                  IN  /\ call.raised = ""
                      /\ call.returned = "DataFrame"
                      /\ Len(call.columns) = 1 + Len(view.feature_list)
                      /\ call.columns[1] = view.entity_key
                      /\ \A k \in DOMAIN view.feature_list :
                            call.columns[k + 1] = view.feature_list[k]
                      /\ DOMAIN call.rows = SourceRows(fstore, view.source)
                      /\ \A r \in DOMAIN call.rows :
                            /\ DOMAIN call.rows[r] =
                                  {view.entity_key} \cup Range(view.feature_list)
                            /\ \A c \in DOMAIN call.rows[r] : call.rows[r][c] = r[c]

\* The retrieval of a view whose features are declared in another order than
\* the columns of its file, which has more columns, and rows.
C13_Witness ==
    /\ HistCalled
    /\ call.name = "item_signals"
    /\ call.name \in DOMAIN fs[call.store]
    /\ fs[call.store][call.name] = ItemViewV2
    /\ call.columns = <<"product_id", "category", "norm_rating">>
    /\ Cardinality(DOMAIN call.rows) = 2

\* The rows of the view's source whose key, as text, is the text of entity_id.
KeyMatches(view, entity_id) ==
    {r \in SourceRows(fstore, view.source) :
        AsTypeStr(view.entity_key, r[view.entity_key]) = PyStr(entity_id)}

\* The product id 1 as an integer or as text, and the ids that no row has.
IsProductOne(entity_id) ==
    \/ entity_id.type = "int" /\ entity_id.value = 1
    \/ entity_id.type = "str" /\ entity_id.value = "1"

IsAbsentEntity(entity_id) ==
    \/ entity_id.type = "int" /\ entity_id.value = 3
    \/ entity_id.type = "str" /\ entity_id.value = "U9"

\* C14: get_online_feature raises (ValueError) for a view name that is not
\* registered; for a registered view it never raises: it returns None when no
\* row's key equals entity_id after both are made text, and else the rows of
\* that entity.  The product id 1 is found as the integer 1 and as the text
\* "1".
C14_OnlineNotFound ==
    OnlineCalled =>
        LET reg == fs[call.store]
        IN  /\ call.name \notin DOMAIN reg =>
                  call.raised = "ValueError" /\ call.returned = ""
            /\ call.name \in DOMAIN reg =>
                  LET view == reg[call.name]
                      m    == KeyMatches(view, call.entity_id)
                  IN  /\ call.raised = ""
                      /\ m = {} => call.returned = "None"
                      /\ m # {} =>
                            /\ call.returned = "DataFrame"
                            /\ DOMAIN call.rows = m
                            /\ \A r \in m :
                                  call.rows[r][view.entity_key] = r[view.entity_key]
                      /\ (view.entity_key = "product_id" /\ IsProductOne(call.entity_id))
                            => call.returned = "DataFrame"
                      /\ IsAbsentEntity(call.entity_id) => call.returned = "None"

\* A registered view over a file with rows, asked for an entity that no row
\* has.
C14_Witness ==
    /\ OnlineCalled
    /\ call.name \in DOMAIN fs[call.store]
    /\ SourceRows(fstore, fs[call.store][call.name].source) # {}
    /\ call.entity_id = [type |-> "int", value |-> 3]
    /\ call.returned = "None"
    /\ call.raised = ""

\* C16: a view name that is in metadata_registry.json is still in it after
\* every later register_feature_view call, whichever object makes the call.
C16_NoDeletion ==
    RegisterCalled => DOMAIN call.disk_before \subseteq DOMAIN registry

(***************************************************************************)
(* Claims about the orchestrated pipeline                                  *)
(***************************************************************************)
Ran(stage) == report[stage].returncode # -1
Completed(stage) == report[stage].returncode = 0

\* C2: if the product-catalog HTTP call of the ingestion stage still fails
\* after its retries, the ingestion stage is treated as failed and no
\* downstream stage is executed in that run.
C2_ApiFailureStopsRun ==
    (Ran("ingestion") /\ ~source.api.exists) => \A s \in Downstream : ~Ran(s)

\* C3: at the orchestration boundary a stage either completes its work or
\* makes run_script raise: a stage is never reported as completed when it did
\* not produce its output, and after a stage that did not, no later stage runs.
C3_CompleteOrRaise ==
    \A i \in DOMAIN Stages :
        (Ran(Stages[i]) /\ ~report[Stages[i]].produced) =>
            /\ ~Completed(Stages[i])
            /\ \A j \in DOMAIN Stages : j > i => ~Ran(Stages[j])

ValidationPassed == audit.ran /\ audit.inter_success /\ audit.prod_success

\* Every silver batch passes its suite, the two datasets are promoted
\* together, and the preparation reads silver directories and builds the gold
\* table from silver batches.
C4_SilverInv ==
    /\ \A dt \in DOMAIN silverI : InterSuite(silverI[dt])
    /\ \A dt \in DOMAIN silverP : ~PreprocessRaises(silverP[dt]) /\ ProdSuite(silverP[dt])
    /\ (silverI = <<>>) <=> (silverP = <<>>)
    /\ prep_read.ran /\ prep_read.tier # "" =>
         /\ prep_read.tier = "silver"
         /\ prep_read.inter_dt \in DOMAIN silverI
         /\ prep_read.prod_dt \in DOMAIN silverP
    /\ gold.exists =>
         \E di \in DOMAIN silverI, dp \in DOMAIN silverP :
            gold.rows = PrepareGold(silverI[di], silverP[dp])

\* A step keeps every silver batch, and changes the silver tier only when it
\* is a validation whose two suites succeeded.
C4_SilverStep ==
    /\ \A dt \in DOMAIN silverI : dt \in DOMAIN silverI'
    /\ \A dt \in DOMAIN silverP : dt \in DOMAIN silverP'
    /\ (silverI' # silverI \/ silverP' # silverP) => pc = "validation" /\ ValidationPassed'

\* C4: downstream stages never execute on data the validation marked failed:
\* every batch in the silver tier passed its suite in a validation where both
\* suites succeeded, a failed validation writes nothing to silver and leaves
\* the promoted batches as they are, and the preparation stage reads silver
\* batches only.
C4_ValidatedOnly == []C4_SilverInv /\ [][C4_SilverStep]_vars

\* A second run whose validation fails on the product suite while the first
\* run's batches are in silver, and the preparation stage has read them.
C4_Witness ==
    /\ run = 2
    /\ audit.ran /\ ~audit.error /\ audit.inter_success /\ ~audit.prod_success
    /\ DOMAIN silverI = {1}
    /\ prep_read.ran /\ prep_read.inter_dt = 1
    /\ gold.exists

HasUnparsedRating(df_prod) ==
    \E i \in DOMAIN df_prod : df_prod[i].rating.kind \in {"malformed", "nan"}

\* C9: a rating that cannot be parsed is taken as rate 0 and never aborts a
\* stage: the validation pre-processing and the product feature engineering
\* both go on with the batch.
C9_UnparsedRatingRecovered ==
    /\ (audit.ran /\ audit.prod_batch # 0 /\ HasUnparsedRating(bronzeP[audit.prod_batch]))
           => ~audit.error
    /\ (prep_read.ran /\ prep_read.prod_dt # 0 /\ HasUnparsedRating(silverP[prep_read.prod_dt]))
           => report["preparation"].produced

\* C17: the interaction batch and the product batch that one validation
\* loads, validates and promotes to silver are of the same ingestion run:
\* their dt_ directory names are equal.
C17_SameIngestionRun ==
    (audit.ran /\ ~audit.error) =>
        /\ audit.inter_batch = audit.prod_batch
        /\ report["validation"].produced =>
              /\ audit.inter_batch \in DOMAIN silverI
              /\ audit.inter_batch \in DOMAIN silverP

====
